---------------------------- MODULE Spec2Model ----------------------------
(*************************************************************************)
(* Model of the agent control loop of src/agent/zig/graph.py: the        *)
(* Decision Node (chat_node), the Execution Node (tool_node), the        *)
(* workflow edges between them, the State Observer                       *)
(* (copilotkit_emit_state) and the Search Capability (people_search with *)
(* extract_people_search_data).                                          *)
(*                                                                       *)
(* Python strings are TLA+ strings; an emoji is written as its           *)
(* shortcode (":mag:" for the magnifying glass).  A Python list that the *)
(* code mutates in place (the logs list) is an object of the heap and is *)
(* held by reference; everything else is held by value.                  *)
(*************************************************************************)
EXTENDS Integers, Sequences, FiniteSets, TLC

(***************************** bounds ************************************)
\* number of node runs (chat_node and tool_node together) in one turn
MaxRuns == 5
\* number of raw person records in one provider response
MaxPeople == 2
\* number of tool calls a model response may carry when parallel tool
\* calls are enabled
MaxParallel == 3

(************************* helpers of the model **************************)
\* Python's `sub in s` for strings
Contains(s, sub) ==
  \E i \in 1..(Len(s) - Len(sub) + 1) : SubSeq(s, i, i + Len(sub) - 1) = sub

\* s is t extended by further elements (t is a prefix of s)
IsExtension(s, t) ==
  /\ Len(t) <= Len(s)
  /\ SubSeq(s, 1, Len(t)) = t

Last(s) == s[Len(s)]

\* Python dict.get(key, default) on a field that may be missing
Missing == "<missing>"
None == "<None>"
Get(v, default) == IF v = Missing THEN default ELSE v
Truthy(v) == v \notin {"", None, Missing}
\* Python's `a or b`
Or(a, b) == IF Truthy(a) THEN a ELSE b

(************** apollo: people_search and its translation ****************)
\* the locked sentinel is handed on as it is
NormalizeEmail_NoSentinel(email) == email

\* translation/search.py line 42-45: the locked sentinel becomes "Unlock"
NormalizeEmail(email) ==
  IF email = "email_not_unlocked@domain.com" THEN "Unlock" ELSE email

\* title and organization are read from the last entry of the history
EmploymentInfo_Last(employment_history) ==
  IF Len(employment_history) > 0
  THEN [title |-> Get(employment_history[Len(employment_history)].title, ""),
        organization |-> Get(employment_history[Len(employment_history)].organization_name, "")]
  ELSE [title |-> "", organization |-> ""]

\* translation/search.py line 47-52: title and organization of
\* employment_history[0], or empty strings
EmploymentInfo(employment_history) ==
  IF Len(employment_history) > 0
  THEN [title |-> Get(employment_history[1].title, ""),
        organization |-> Get(employment_history[1].organization_name, "")]
  ELSE [title |-> "", organization |-> ""]

\* "city, state" is built as soon as one of the two is there
Location_EitherPresent(city, state_) ==
  IF Truthy(city) \/ Truthy(state_)
  THEN city \o ", " \o state_
  ELSE ""

\* translation/search.py line 54-57:
\* f"{city}, {state}" if city and state else city or state or ""
Location(city, state_) ==
  IF Truthy(city) /\ Truthy(state_)
  THEN city \o ", " \o state_
  ELSE Or(city, Or(state_, ""))

\* translation/search.py: extract_people_search_data, the body of the loop
\* for one person.  employment_history is a sequence; a missing, null or
\* empty history is the empty sequence (the code treats the three alike).
ExtractPerson(person) ==
  LET first_name == Get(person.first_name, "")
      last_name == Get(person.last_name, "")
      linkedin_url == Get(person.linkedin_url, "")
      email_status == Get(person.email_status, "")
      email == NormalizeEmail(Get(person.email, ""))
      employment_info == EmploymentInfo(person.employment_history)
      location == Location(Get(person.city, ""), Get(person.state, ""))
  IN [first_name |-> first_name, last_name |-> last_name,
      linkedin_url |-> linkedin_url, email_status |-> email_status,
      email |-> email, title |-> employment_info.title,
      organization |-> employment_info.organization,
      location |-> location]

extract_people_search_data(people) ==
  [i \in 1..Len(people) |-> ExtractPerson(people[i])]

\* raw person records a provider response is built from
RawAda ==
  [first_name |-> "Ada", last_name |-> "Lovelace", linkedin_url |-> "in/ada",
   email_status |-> "verified", email |-> "email_not_unlocked@domain.com",
   employment_history |-> << [title |-> "CTO", organization_name |-> "Acme"],
                             [title |-> "Engineer", organization_name |-> "Initech"] >>,
   city |-> "Austin", state |-> "TX"]

RawBob ==
  [first_name |-> "Bob", last_name |-> Missing, linkedin_url |-> "in/bob",
   email_status |-> "unavailable", email |-> "bob@corp.io",
   employment_history |-> << >>,
   city |-> "Austin", state |-> ""]

RawPersons == {RawAda, RawBob}

\* the "people" array of a provider response body
RawPeopleLists == UNION { [1..k -> RawPersons] : k \in 0..MaxPeople }

\* HTTP statuses of the provider's response: success, a 3xx status that the
\* HTTP client hands to its caller (304 is no redirect it follows), and a
\* client error
Statuses == {200, 304, 401}

\* search.py line 66: a response fails iff its status is >= 400
SearchFailsWith(status) == status >= 400

(***************************** graph.py ***********************************)
\* line 30-33: the tools the agent owns
tools == {"people_search"}

\* parallel tool calls left enabled
parallel_tool_calls_on == TRUE

\* line 131: bind_tools(..., parallel_tool_calls=False)
parallel_tool_calls == FALSE

\* the names a model response may ask for: the owned tool, a host action,
\* and a name that differs from the owned tool only by case
Names == {"people_search", "show_chart", "People_Search"}

\* the host action lists a host may supply in state.copilotkit.actions
HostActionSets == SUBSET {"show_chart", "people_search"}

\* line 18-23: ProgressLog, as the dict tool_node appends
ProgressLog(id, message, timestamp, log_type) ==
  [id |-> id, message |-> message, timestamp |-> timestamp, type |-> log_type]

HumanMessage(content) ==
  [type |-> "human", content |-> content, tool_calls |-> << >>, tool_call_id |-> 0]
AIMessage(content, tool_calls) ==
  [type |-> "ai", content |-> content, tool_calls |-> tool_calls, tool_call_id |-> 0]
ToolMessage(content, tool_call_id) ==
  [type |-> "tool", content |-> content, tool_calls |-> << >>, tool_call_id |-> tool_call_id]

NoToolCall == [name |-> "", id |-> 0, args |-> ""]

\* the status of a Conversation State that has no current_status key
NoStatus == "<absent>"
\* the logs reference of a Conversation State that has no logs key
NoLogs == 0

VARIABLES
  state,         \* AgentState: messages, logs (a heap reference), current_status, people, copilotkit
  heap,          \* the list objects: heap[r] is the content of list r
  node,          \* the node of the workflow that runs: chat_node, tool_node, END, FAILED
  pc,            \* the position inside the running node
  tool_call,     \* tool_node local
  current_logs,  \* tool_node local: a heap reference
  result,        \* tool_node local: the list people_search returned
  emitted,       \* the snapshots the State Observer received, in order
  uuid,          \* the last identifier uuid4 handed out
  clock,         \* datetime.now()
  callSeq,       \* the last tool-call id the model handed out
  runs,          \* history: the node runs of this turn, in order
  invoked,       \* history: capability invocations dispatched in the current tool_node run
  entry,         \* history: the Conversation State (by value) at the entry of the current node run
  turn0,         \* history: the Conversation State (by value) at the start of the turn
  searches,      \* history: the record lists returned by the successful searches, in order
  env,           \* the process environment the configuration modules read at import
  requests,      \* the requests sent to the language model and to the provider, in order
  error,         \* the exception that left the running node, or NoError
  responses,     \* history: the provider's responses to people_search, in order
  data,          \* extract_people_search_data: the raw response body it is given
  extracted,     \* extract_people_search_data: its local `result`
  xpc,           \* extract_people_search_data: off, loop, returned
  uenv,          \* unipile: the environment unipile/config.py reads at import
  ucall,         \* unipile: the operation that is called and its arguments
  upc,           \* unipile: the position inside the called operation
  ulocals,       \* unipile: the locals id, base_url, headers and response of the operation
  urequests,     \* unipile: the HTTP requests issued to the provider, in order
  uoutcome       \* unipile: what the call handed to its caller: a value or an exception

\* the variables of the control loop
loopVars == << state, heap, node, pc, tool_call, current_logs, result, emitted,
               uuid, clock, callSeq, runs, invoked, entry, turn0, searches,
               env, requests, error, responses >>

\* the variables of a stand-alone call of extract_people_search_data
xVars == << data, extracted, xpc >>

\* the variables of a stand-alone call of a Unipile operation
uVars == << uenv, ucall, upc, ulocals, urequests, uoutcome >>

vars == << state, heap, node, pc, tool_call, current_logs, result, emitted,
           uuid, clock, callSeq, runs, invoked, entry, turn0, searches,
           env, requests, error, responses, data, extracted, xpc,
           uenv, ucall, upc, ulocals, urequests, uoutcome >>

\* apollo/config.py line 3-6: apollo_config, read from the environment at
\* import; os.environ.get gives None for a variable that is not set
apollo_config(e) == [apiKey |-> e.APOLLO_API_KEY, endpoint |-> "https://api.apollo.io"]

\* the environments a process may be started in
Environments == [APOLLO_API_KEY : {None, "apollo-key"}]

\* search.py line 55-65: the request people_search posts
PeopleSearchRequest(e, run) ==
  [to |-> "apollo", url |-> apollo_config(e).endpoint \o "/v1/mixed_people/search",
   api_key |-> apollo_config(e).apiKey, run |-> run]

\* graph.py line 156-159: the request to the language model
ModelRequest(run) ==
  [to |-> "model", url |-> "gpt-4o-mini", api_key |-> "", run |-> run]

\* the statuses the provider answers a request with: a request without an
\* api key is not authorized
ProviderStatuses(request) ==
  IF request.api_key = None THEN { st \in Statuses : st = 401 } ELSE Statuses

NoError == [source |-> "", name |-> "", status |-> 0, body |-> "", message |-> ""]

\* apollo/config.py line 8-13
ApolloError(status, body, message) ==
  [source |-> "people_search", name |-> "ApolloError", status |-> status,
   body |-> body, message |-> message]

\* an exception of the Python runtime or of a library
PythonError(source, name, message) ==
  [source |-> source, name |-> name, status |-> 0, body |-> "", message |-> message]

\* search.py line 65-75: what people_search made of a response of the
\* provider: it returned a record list or it raised
ProviderResponse(status, run, returned) ==
  [status |-> status, run |-> run, returned |-> returned]

\* no call of extract_people_search_data outside people_search is under way
NoData == [hasPeople |-> FALSE, people |-> << >>]
ExtractOff == data = NoData /\ extracted = << >> /\ xpc = "off"

\* unipile/config.py line 12-14: os.environ.get(name, '') gives the empty
\* string for a variable that is not set
NoUnipileEnv == [UNIPILE_DNS |-> "", UNIPILE_API_KEY |-> "", UNIPILE_ACCOUNT_ID |-> ""]
NoCall == [op |-> "", args |-> << >>, account_id |-> None, raw |-> FALSE]
NoLocals == [id |-> "", base_url |-> "", headers |-> "", response |-> ""]
NoOutcome == [kind |-> "", value |-> "", name |-> "", status |-> 0, body |-> "", message |-> ""]

\* no Unipile operation is called
UnipileOff ==
  /\ uenv = NoUnipileEnv
  /\ ucall = NoCall
  /\ upc = "off"
  /\ ulocals = NoLocals
  /\ urequests = << >>
  /\ uoutcome = NoOutcome

\* the content of the list a reference points to (state.get("logs", []) by value)
Deref(h, ref) == IF ref = NoLogs THEN << >> ELSE h[ref]

\* the Conversation State by value
Value(s, h) ==
  [messages |-> s.messages, logs |-> Deref(h, s.logs), hasLogs |-> s.logs # NoLogs,
   current_status |-> s.current_status, people |-> s.people]

\* copilotkit_emit_state(config, snapshot): the observer receives the dict;
\* `logs` is the content of the list at the moment of the emission and
\* `logsRef` the list object the dict holds
Snapshot(messages, logsRef, h, current_status, people) ==
  [messages |-> messages, logs |-> Deref(h, logsRef), logsRef |-> logsRef,
   current_status |-> current_status, people |-> people,
   node |-> node, run |-> Len(runs)]

\* a log list persisted by a previous turn
PriorLogs ==
  << ProgressLog(1, ":mag: Starting people search...", 0, "progress") >>

\* a result list persisted by a previous turn
PriorPeople == extract_people_search_data(<< RawBob >>)

\* line 187: workflow.set_entry_point("chat_node")
entry_point == "chat_node"

\* the edge out of tool_node leads back into tool_node
tool_node_edge_self == "tool_node"

\* the edge out of tool_node leads to END
tool_node_edge_end == "END"

\* line 186: workflow.add_edge("tool_node", "chat_node")
tool_node_edge == "chat_node"

Init ==
  /\ env \in Environments
  /\ requests = << >>
  /\ error = NoError
  /\ responses = << >>
  /\ ExtractOff
  /\ UnipileOff
  /\ \E actions \in HostActionSets, logs0 \in {"absent", "empty", "prior"},
        people0 \in {<< >>, PriorPeople} :
       /\ state = [messages |-> << HumanMessage("find marketing managers in Austin") >>,
                   logs |-> IF logs0 = "absent" THEN NoLogs ELSE 1,
                   current_status |-> NoStatus,
                   people |-> people0,
                   copilotkit |-> [actions |-> actions]]
       /\ heap = IF logs0 = "absent" THEN << >>
                 ELSE IF logs0 = "empty" THEN << << >> >> ELSE << PriorLogs >>
  /\ node = entry_point
  /\ pc = "entry"
  /\ tool_call = NoToolCall
  /\ current_logs = NoLogs
  /\ result = << >>
  /\ emitted = << >>
  /\ uuid = 1
  /\ clock = 1
  /\ callSeq = 0
  /\ runs = << [node |-> entry_point, calls |-> << >>] >>
  /\ invoked = 0
  /\ entry = Value(state, heap)
  /\ turn0 = Value(state, heap)
  /\ searches = << >>


(***************************** chat_node **********************************)
\* the tool-call lists a model response may carry: at most one call when
\* parallel tool calls are disabled (line 121-132)
MaxToolCalls == IF parallel_tool_calls THEN MaxParallel ELSE 1

ToolCallNames == UNION { [1..k -> Names] : k \in 0..MaxToolCalls }

\* line 156-159: the responses model_with_tools.ainvoke may return
ModelResponses ==
  { AIMessage(IF Len(names) = 0 THEN "Here is what I found." ELSE "",
              [i \in 1..Len(names) |->
                 [name |-> names[i], id |-> callSeq + i, args |-> "person_titles"]])
    : names \in ToolCallNames }

\* every response with a tool call goes to tool_node: the host actions are
\* not looked at
Route_NoHostCheck(response, actions) ==
  IF response.type = "ai" /\ Len(response.tool_calls) > 0 THEN "tool_node" ELSE "END"

\* every tool call of the response is compared with the host actions
Route_AnyCall(response, actions) ==
  IF /\ response.type = "ai"
     /\ Len(response.tool_calls) > 0
     /\ ~ \E action \in actions, i \in 1..Len(response.tool_calls) :
            action = response.tool_calls[i].name
  THEN "tool_node"
  ELSE "END"

\* line 163-180: the node the Command of chat_node goes to
Route(response, actions) ==
  IF /\ response.type = "ai"
     /\ Len(response.tool_calls) > 0
     /\ ~ \E action \in actions : action = response.tool_calls[1].name
  THEN "tool_node"
  ELSE "END"

\* the ids of the tool calls of a message
CallIds(message) == [i \in 1..Len(message.tool_calls) |-> message.tool_calls[i].id]

\* only a missing logs key counts as "no logs"
NoLogsExist_KeyOnly(s, h) == s.logs = NoLogs

\* line 149: not state.get("logs"), true of a missing key and of an empty list
NoLogsExist(s, h) == Deref(h, s.logs) = << >>

\* line 148-153: emit the baseline snapshot when no logs exist
ChatEntry ==
  /\ node = "chat_node" /\ pc = "entry"
  /\ IF NoLogsExist(state, heap)
     THEN /\ heap' = Append(heap, << >>)
          /\ emitted' = Append(emitted,
                Snapshot(state.messages, Len(heap) + 1, heap',
                         "Ready to help you find prospects", state.people))
     ELSE UNCHANGED << heap, emitted >>
  /\ pc' = "query"
  /\ clock' = clock + 1
  /\ UNCHANGED << state, node, tool_call, current_logs, result, uuid, callSeq,
                  runs, invoked, entry, turn0, searches >>
  /\ UNCHANGED << env, requests, error >>
  /\ UNCHANGED responses
  /\ UNCHANGED xVars
  /\ UNCHANGED uVars

\* line 155-159: model_with_tools.ainvoke sends the messages to the model
ChatQuery ==
  /\ node = "chat_node" /\ pc = "query"
  /\ requests' = Append(requests, ModelRequest(Len(runs)))
  /\ pc' = "model"
  /\ clock' = clock + 1
  /\ UNCHANGED << state, heap, node, tool_call, current_logs, result, emitted, uuid,
                  callSeq, runs, invoked, entry, turn0, searches >>
  /\ UNCHANGED << env, error >>
  /\ UNCHANGED responses
  /\ UNCHANGED xVars
  /\ UNCHANGED uVars

\* line 161-180: the Command chat_node returns for a response, applied by
\* the workflow
ChatCommand(response) ==
  LET goto == Route(response, state.copilotkit.actions)
      s1 == [state EXCEPT !.messages = Append(@, response)]
  IN /\ goto = "tool_node" => Len(runs) + 2 <= MaxRuns
     /\ state' = s1
     /\ callSeq' = callSeq + Len(response.tool_calls)
     /\ node' = goto
     /\ pc' = "entry"
     /\ runs' = LET done == [runs EXCEPT ![Len(runs)].calls = CallIds(response)]
                IN IF goto = "tool_node"
                   THEN Append(done, [node |-> "tool_node", calls |-> << >>])
                   ELSE done
     /\ entry' = Value(s1, heap)
     /\ invoked' = 0

\* line 155-180: the model answers and the Command is applied
ChatRespond ==
  /\ node = "chat_node" /\ pc = "model"
  /\ \E response \in ModelResponses : ChatCommand(response)
  /\ clock' = clock + 1
  /\ UNCHANGED << heap, tool_call, current_logs, result, emitted, uuid, turn0, searches >>
  /\ UNCHANGED << env, requests, error >>
  /\ UNCHANGED responses
  /\ UNCHANGED xVars
  /\ UNCHANGED uVars

\* the failed model call is sent again by the node
ChatModelFails_Retry ==
  /\ node = "chat_node" /\ pc = "model"
  /\ error' = [source |-> "model", name |-> "APIConnectionError", status |-> 0,
               body |-> "", message |-> "Connection error."]
  /\ pc' = "query"
  /\ clock' = clock + 1
  /\ UNCHANGED << state, heap, node, tool_call, current_logs, result, emitted, uuid,
                  callSeq, runs, invoked, entry, turn0, searches >>
  /\ UNCHANGED << env, requests >>
  /\ UNCHANGED responses
  /\ UNCHANGED xVars
  /\ UNCHANGED uVars

\* line 156: the language-model call raises; the error leaves the node
ChatModelFails ==
  /\ node = "chat_node" /\ pc = "model"
  /\ node' = "FAILED"
  /\ pc' = "raised"
  /\ error' = PythonError("model", "APIConnectionError", "Connection error.")
  /\ clock' = clock + 1
  /\ UNCHANGED << state, heap, tool_call, current_logs, result, emitted, uuid,
                  callSeq, runs, invoked, entry, turn0, searches >>
  /\ UNCHANGED << env, requests >>
  /\ UNCHANGED responses
  /\ UNCHANGED xVars
  /\ UNCHANGED uVars

(***************************** tool_node **********************************)
\* the list is overwritten by the new entry instead of extended
AppendTo_Overwrite(h, ref, e) == [h EXCEPT ![ref] = << e >>]

\* the state of the heap after list ref got entry e appended
\* (current_logs.append)
AppendTo(h, ref, e) == [h EXCEPT ![ref] = Append(@, e)]

\* the tool name is compared without regard to case
IsSearchCall_AnyCase(call) == call.name \in {"people_search", "People_Search"}

\* line 41: tool_call["name"] == "people_search"
IsSearchCall(call) == call.name = "people_search"

\* line 39-59: read the pending tool call; on the search path take the logs
\* list, append the start entry and emit the 'searching' snapshot
ToolStart ==
  /\ node = "tool_node" /\ pc = "entry"
  /\ IF Len(Last(state.messages).tool_calls) = 0
     THEN \* line 39: tool_calls[0] raises IndexError
          /\ node' = "FAILED" /\ pc' = "raised"
          /\ error' = PythonError("tool_node", "IndexError", "list index out of range")
          /\ UNCHANGED << heap, tool_call, current_logs, emitted, uuid, runs >>
     ELSE LET call == Last(state.messages).tool_calls[1]
          IN /\ tool_call' = call
             /\ runs' = [runs EXCEPT ![Len(runs)].calls = << call.id >>]
             /\ node' = node
             /\ error' = error
             /\ IF IsSearchCall(call)
                THEN LET h0 == IF state.logs = NoLogs THEN Append(heap, << >>) ELSE heap
                         ref == IF state.logs = NoLogs THEN Len(heap) + 1 ELSE state.logs
                         start_log == ProgressLog(uuid + 1, ":mag: Starting people search...",
                                                  clock, "progress")
                         h1 == AppendTo(h0, ref, start_log)
                     IN /\ current_logs' = ref
                        /\ heap' = h1
                        /\ uuid' = uuid + 1
                        /\ emitted' = Append(emitted,
                              Snapshot(Append(state.messages,
                                              AIMessage("*Searching for people...* :detective:", << >>)),
                                       ref, h1, "Searching for people...", state.people))
                        /\ pc' = "exec_log"
                ELSE /\ pc' = "fallback"
                     /\ UNCHANGED << heap, current_logs, emitted, uuid >>
  /\ clock' = clock + 1
  /\ UNCHANGED << state, result, callSeq, invoked, entry, turn0, searches >>
  /\ UNCHANGED << env, requests >>
  /\ UNCHANGED responses
  /\ UNCHANGED xVars
  /\ UNCHANGED uVars

\* the 'executing' entry is appended but its snapshot is not emitted
ToolExecLog_NoEmit ==
  /\ node = "tool_node" /\ pc = "exec_log"
  /\ heap' = [heap EXCEPT ![current_logs] =
                Append(@, [id |-> uuid + 1,
                           message |-> ":zap: Executing Apollo people search API...",
                           timestamp |-> clock, type |-> "progress"])]
  /\ uuid' = uuid + 1
  /\ pc' = "dispatch"
  /\ clock' = clock + 1
  /\ UNCHANGED << state, node, tool_call, current_logs, result, emitted, callSeq, runs,
                  invoked, entry, turn0, searches >>
  /\ UNCHANGED << env, requests, error >>
  /\ UNCHANGED responses
  /\ UNCHANGED xVars
  /\ UNCHANGED uVars

\* the second snapshot keeps the transient 'searching' message
ToolExecLog_Transient ==
  /\ node = "tool_node" /\ pc = "exec_log"
  /\ heap' = [heap EXCEPT ![current_logs] =
                Append(@, [id |-> uuid + 1,
                           message |-> ":zap: Executing Apollo people search API...",
                           timestamp |-> clock, type |-> "progress"])]
  /\ uuid' = uuid + 1
  /\ emitted' = Append(emitted,
        [messages |-> Append(state.messages,
                             AIMessage("*Searching for people...* :detective:", << >>)),
         logs |-> heap'[current_logs], logsRef |-> current_logs,
         current_status |-> "Executing search...", people |-> state.people,
         node |-> node, run |-> Len(runs)])
  /\ pc' = "dispatch"
  /\ clock' = clock + 1
  /\ UNCHANGED << state, node, tool_call, current_logs, result, callSeq, runs,
                  invoked, entry, turn0, searches >>
  /\ UNCHANGED << env, requests, error >>
  /\ UNCHANGED responses
  /\ UNCHANGED xVars
  /\ UNCHANGED uVars

\* line 61-74: append the 'executing' entry and emit the second snapshot
ToolExecLog ==
  /\ node = "tool_node" /\ pc = "exec_log"
  /\ LET exec_log == ProgressLog(uuid + 1, ":zap: Executing Apollo people search API...",
                                 clock, "progress")
         h1 == AppendTo(heap, current_logs, exec_log)
     IN /\ heap' = h1
        /\ uuid' = uuid + 1
        /\ emitted' = Append(emitted,
              Snapshot(state.messages, current_logs, h1, "Executing search...", state.people))
  /\ pc' = "dispatch"
  /\ clock' = clock + 1
  /\ UNCHANGED << state, node, tool_call, current_logs, result, callSeq, runs,
                  invoked, entry, turn0, searches >>
  /\ UNCHANGED << env, requests, error >>
  /\ UNCHANGED responses
  /\ UNCHANGED xVars
  /\ UNCHANGED uVars

\* the request is sent right after the first emission, before the
\* 'executing' entry and its snapshot
ToolDispatch_Early ==
  /\ node = "tool_node" /\ pc = "exec_log"
  /\ invoked' = invoked + 1
  /\ requests' = Append(requests, PeopleSearchRequest(env, Len(runs)))
  /\ pc' = "search"
  /\ clock' = clock + 1
  /\ UNCHANGED << state, heap, node, tool_call, current_logs, result, emitted,
                  uuid, callSeq, runs, entry, turn0, searches >>
  /\ UNCHANGED << env, error >>
  /\ UNCHANGED responses
  /\ UNCHANGED xVars
  /\ UNCHANGED uVars

\* line 77: people_search.ainvoke(tool_call["args"]) sends the request
ToolDispatch ==
  /\ node = "tool_node" /\ pc = "dispatch"
  /\ invoked' = invoked + 1
  /\ requests' = Append(requests, PeopleSearchRequest(env, Len(runs)))
  /\ pc' = "search"
  /\ clock' = clock + 1
  /\ UNCHANGED << state, heap, node, tool_call, current_logs, result, emitted,
                  uuid, callSeq, runs, entry, turn0, searches >>
  /\ UNCHANGED << env, error >>
  /\ UNCHANGED responses
  /\ UNCHANGED xVars
  /\ UNCHANGED uVars

\* the status line of the final snapshot and of the yielded update
ReadyStatus(n) == "Ready - " \o ToString(n) \o " people loaded"
\* the final snapshot already carries the status of the yielded update
CompletedStatus_Ready(n) == "Ready - " \o ToString(n) \o " people loaded"
CompletedStatus(n) == "Search completed - " \o ToString(n) \o " people found"
FoundAI(n) == "Found " \o ToString(n) \o " people. :white_check_mark:"
\* the summary of the tool-result message leaves the count out
FoundTool_NoCount(n) == "Found people."
FoundTool(n) == "Found " \o ToString(n) \o " people."
SuccessText(n) == ":white_check_mark: Found " \o ToString(n) \o " people successfully!"

\* line 77-105: the search returns its records; append the success and the
\* processing entries, build final_state and emit it
SearchReturns ==
  /\ node = "tool_node" /\ pc = "search"
  /\ \E status \in ProviderStatuses(Last(requests)), raw \in RawPeopleLists :
       /\ ~ SearchFailsWith(status)
       /\ LET res == extract_people_search_data(raw)
              success_log == ProgressLog(uuid + 1, SuccessText(Len(res)), clock, "success")
              process_log == ProgressLog(uuid + 2, ":arrows_counterclockwise: Processing and formatting results...",
                                         clock, "progress")
              h1 == AppendTo(AppendTo(heap, current_logs, success_log), current_logs, process_log)
          IN /\ result' = res
             /\ searches' = Append(searches, res)
             /\ responses' = Append(responses, ProviderResponse(status, Len(runs), TRUE))
             /\ heap' = h1
             /\ uuid' = uuid + 2
             /\ emitted' = Append(emitted,
                   Snapshot(Append(state.messages, AIMessage(FoundAI(Len(res)), << >>)),
                            current_logs, h1, CompletedStatus(Len(res)), res))
  /\ pc' = "yield"
  /\ clock' = clock + 1
  /\ UNCHANGED << state, node, tool_call, current_logs, callSeq, runs, invoked,
                  entry, turn0 >>
  /\ UNCHANGED << env, requests, error >>
  /\ UNCHANGED xVars
  /\ UNCHANGED uVars

\* the failure path resets the results before the error leaves the node
SearchFails_ClearsResults ==
  /\ node = "tool_node" /\ pc = "search"
  /\ \E status \in ProviderStatuses(Last(requests)) :
       /\ SearchFailsWith(status)
       /\ responses' = Append(responses, ProviderResponse(status, Len(runs), FALSE))
       /\ error' = [source |-> "people_search", name |-> "ApolloError", status |-> status,
                    body |-> "", message |-> "Failed to fetch people search results"]
  /\ state' = [state EXCEPT !.people = << >>]
  /\ node' = "FAILED"
  /\ pc' = "raised"
  /\ clock' = clock + 1
  /\ UNCHANGED << heap, tool_call, current_logs, result, emitted, uuid,
                  callSeq, runs, invoked, entry, turn0, searches >>
  /\ UNCHANGED << env, requests >>
  /\ UNCHANGED xVars
  /\ UNCHANGED uVars

\* the failed search is dispatched again
SearchFails_Retry ==
  /\ node = "tool_node" /\ pc = "search"
  /\ \E status \in ProviderStatuses(Last(requests)) :
       /\ SearchFailsWith(status)
       /\ responses' = Append(responses, ProviderResponse(status, Len(runs), FALSE))
       /\ error' = [source |-> "people_search", name |-> "ApolloError", status |-> status,
                    body |-> "", message |-> "Failed to fetch people search results"]
  /\ pc' = "dispatch"
  /\ clock' = clock + 1
  /\ UNCHANGED << state, heap, node, tool_call, current_logs, result, emitted, uuid,
                  callSeq, runs, invoked, entry, turn0, searches >>
  /\ UNCHANGED << env, requests >>
  /\ UNCHANGED xVars
  /\ UNCHANGED uVars

\* the failure is caught in the node: an 'error' entry is appended and
\* published before the error leaves the node
SearchFails_LogsError ==
  /\ node = "tool_node" /\ pc = "search"
  /\ \E status \in ProviderStatuses(Last(requests)) :
       /\ SearchFailsWith(status)
       /\ responses' = Append(responses, ProviderResponse(status, Len(runs), FALSE))
       /\ error' = [source |-> "people_search", name |-> "ApolloError", status |-> status,
                    body |-> "", message |-> "Failed to fetch people search results"]
  /\ heap' = [heap EXCEPT ![current_logs] =
                Append(@, [id |-> uuid + 1, message |-> ":x: Search failed",
                           timestamp |-> clock, type |-> "error"])]
  /\ uuid' = uuid + 1
  /\ emitted' = Append(emitted,
        [messages |-> state.messages, logs |-> heap'[current_logs], logsRef |-> current_logs,
         current_status |-> "Search failed", people |-> state.people,
         node |-> node, run |-> Len(runs)])
  /\ node' = "FAILED"
  /\ pc' = "raised"
  /\ clock' = clock + 1
  /\ UNCHANGED << state, tool_call, current_logs, result,
                  callSeq, runs, invoked, entry, turn0, searches >>
  /\ UNCHANGED << env, requests >>
  /\ UNCHANGED xVars
  /\ UNCHANGED uVars

\* search.py line 66-72: the provider answers with a failing status;
\* ApolloError leaves people_search and tool_node and aborts the loop
SearchFails ==
  /\ node = "tool_node" /\ pc = "search"
  /\ \E status \in ProviderStatuses(Last(requests)) :
       /\ SearchFailsWith(status)
       /\ responses' = Append(responses, ProviderResponse(status, Len(runs), FALSE))
       /\ error' = ApolloError(status, "<body of " \o ToString(status) \o ">",
                               "Failed to fetch people search results")
  /\ node' = "FAILED"
  /\ pc' = "raised"
  /\ clock' = clock + 1
  /\ UNCHANGED << state, heap, tool_call, current_logs, result, emitted, uuid,
                  callSeq, runs, invoked, entry, turn0, searches >>
  /\ UNCHANGED << env, requests >>
  /\ UNCHANGED xVars
  /\ UNCHANGED uVars

\* the new records are merged into the previous results
ApplyUpdate_Merge(s, messages, people, logs, current_status) ==
  [s EXCEPT !.messages = @ \o messages,
            !.people = @ \o people,
            !.logs = logs,
            !.current_status = current_status]

\* the yielded messages take the place of the messages of the state
ApplyUpdate_Replace(s, messages, people, logs, current_status) ==
  [s EXCEPT !.messages = messages,
            !.people = people,
            !.logs = logs,
            !.current_status = current_status]

\* the workflow applies the update a node yields: messages are appended
\* (add_messages), the other keys are overwritten
ApplyUpdate(s, messages, people, logs, current_status) ==
  [s EXCEPT !.messages = @ \o messages,
            !.people = people,
            !.logs = logs,
            !.current_status = current_status]

\* line 107-111 and the edge of line 186: yield the update; the workflow
\* applies it and runs the next node
ToolYield ==
  /\ node = "tool_node" /\ pc = "yield"
  /\ LET tool_message == ToolMessage(FoundTool(Len(result)), tool_call.id)
         s1 == ApplyUpdate(state, << tool_message >>, result, current_logs,
                           ReadyStatus(Len(result)))
     IN /\ state' = s1
        /\ entry' = Value(s1, heap)
  /\ node' = tool_node_edge
  /\ pc' = "entry"
  /\ runs' = Append(runs, [node |-> tool_node_edge, calls |-> << >>])
  /\ invoked' = 0
  /\ clock' = clock + 1
  /\ UNCHANGED << heap, tool_call, current_logs, result, emitted, uuid, callSeq,
                  turn0, searches >>
  /\ UNCHANGED << env, requests, error >>
  /\ UNCHANGED responses
  /\ UNCHANGED xVars
  /\ UNCHANGED uVars

\* line 113-114: ToolNode(tools).ainvoke(state) answers every tool call of
\* the last message: it invokes the call's tool when the agent owns it and
\* answers an error message when it does not; the node yields the answers
ToolFallback ==
  /\ node = "tool_node" /\ pc = "fallback"
  /\ LET calls == Last(state.messages).tool_calls
         owned == { i \in 1..Len(calls) : calls[i].name \in tools }
         answers == [i \in 1..Len(calls) |->
                       IF i \in owned
                       THEN ToolMessage("<output of " \o calls[i].name \o ">", calls[i].id)
                       ELSE ToolMessage("Error: " \o calls[i].name \o " is not a valid tool",
                                        calls[i].id)]
         s1 == [state EXCEPT !.messages = @ \o answers]
     IN /\ invoked' = invoked + Cardinality(owned)
        /\ state' = s1
        /\ entry' = Value(s1, heap)
  /\ node' = tool_node_edge
  /\ pc' = "entry"
  /\ runs' = Append(runs, [node |-> tool_node_edge, calls |-> << >>])
  /\ clock' = clock + 1
  /\ UNCHANGED << heap, tool_call, current_logs, result, emitted, uuid, callSeq,
                  turn0, searches >>
  /\ UNCHANGED << env, requests, error >>
  /\ UNCHANGED responses
  /\ UNCHANGED xVars
  /\ UNCHANGED uVars

Next ==
  \/ ChatEntry
  \/ ChatQuery
  \/ ChatRespond
  \/ ChatModelFails
  \/ ToolStart
  \/ ToolExecLog
  \/ ToolDispatch
  \/ SearchReturns
  \/ SearchFails
  \/ ToolYield
  \/ ToolFallback

Spec == Init /\ [][Next]_vars

(*************************** the properties *******************************)
\* the logs of the Conversation State, by value
StateLogs == Deref(heap, state.logs)

\* the snapshots emitted by the running node run, in order
RunSnaps == SelectSeq(emitted, LAMBDA snap : snap.run = Len(runs) /\ snap.node = node)

\* the snapshots emitted by node run r
SnapsOfRun(r) == SelectSeq(emitted, LAMBDA snap : snap.run = r)

\* the entries the running tool_node run has appended so far
NewEntries == SubSeq(Deref(heap, current_logs), Len(entry.logs) + 1,
                     Len(Deref(heap, current_logs)))

\* a tool_node run on the search path has just yielded its update
SuccessYielded ==
  /\ node = "chat_node" /\ pc = "entry"
  /\ Len(runs) > 1
  /\ runs[Len(runs) - 1].node = "tool_node"
  /\ tool_call.name = "people_search"
  /\ runs[Len(runs) - 1].calls = << tool_call.id >>

\* C1: chat_node goes to tool_node iff the response carries a tool call
\* whose name equals no host action name, and to END in every other case;
\* in both cases the response is appended to messages.
C1_Routing ==
  [][ (node = "chat_node" /\ pc = "model" /\ node' # "FAILED") =>
        \E response \in ModelResponses :
          /\ state'.messages = Append(state.messages, response)
          /\ node' \in {"tool_node", "END"}
          /\ (node' = "tool_node") <=>
               \E i \in 1..Len(response.tool_calls) :
                 \A action \in state.copilotkit.actions :
                   action # response.tool_calls[i].name ]_vars

\* the turn ended on a request for a host action, after a tool_node run
C1_Witness ==
  /\ node = "END"
  /\ Len(Last(state.messages).tool_calls) = 1
  /\ Last(state.messages).tool_calls[1].name \in state.copilotkit.actions
  /\ \E i \in 1..Len(runs) : runs[i].node = "tool_node"

\* C2: every tool_node run is immediately preceded by the chat_node run
\* that produced the tool call it executes, and the run after a completed
\* tool_node run is a chat_node run.
C2_ExecAfterDecision ==
  \A i \in 1..Len(runs) :
    runs[i].node = "tool_node" =>
      /\ i > 1
      /\ runs[i - 1].node = "chat_node"
      /\ \A j \in 1..Len(runs[i].calls) :
           \E k \in 1..Len(runs[i - 1].calls) : runs[i - 1].calls[k] = runs[i].calls[j]
      /\ i < Len(runs) => runs[i + 1].node = "chat_node"

\* two tool_node runs have completed
C2_Witness ==
  /\ Len(runs) = 5
  /\ runs[2].node = "tool_node" /\ runs[2].calls # << >>
  /\ runs[4].node = "tool_node" /\ runs[4].calls # << >>

\* C3: no response appended by chat_node carries more than one tool call.
C3_SingleCall ==
  \A i \in 1..Len(state.messages) :
    state.messages[i].type = "ai" => Len(state.messages[i].tool_calls) <= 1

\* chat_node appended a response that carries a tool call
C3_Witness ==
  \E i \in 1..Len(state.messages) :
    state.messages[i].type = "ai" /\ Len(state.messages[i].tool_calls) = 1

C5_MonotonicLog ==
  [][ /\ IsExtension(Deref(heap', state'.logs), StateLogs)
      /\ (node = "tool_node" /\ pc = "yield") =>
           LET after == Deref(heap', state'.logs)
               new == SubSeq(after, Len(entry.logs) + 1, Len(after))
           IN /\ after = entry.logs \o new
              /\ Len(new) = 4
              /\ new[1].message = ":mag: Starting people search..."
              /\ new[2].message = ":zap: Executing Apollo people search API..."
              /\ new[3].type = "success"
              /\ new[3].message = ":white_check_mark: Found " \o ToString(Len(result))
                                     \o " people successfully!"
              /\ new[4].message = ":arrows_counterclockwise: Processing and formatting results..."
              /\ \A a, b \in 1..Len(after) : a # b => after[a].id # after[b].id ]_vars

\* a successful run has extended a log that a previous turn left non-empty
C5_Witness ==
  /\ SuccessYielded
  /\ entry.logs = StateLogs
  /\ Len(turn0.logs) > 0
  /\ Len(StateLogs) = Len(turn0.logs) + 4

\* C6 as stated: within a search-path run every appended entry is
\* published by its own emission before the next entry is appended, so
\* each snapshot of the run holds exactly one entry more than the one before.
C6_Original ==
  node = "tool_node" =>
    /\ Len(NewEntries) <= Len(RunSnaps) + 1
    /\ \A k \in 1..Len(RunSnaps) : RunSnaps[k].logs = entry.logs \o SubSeq(NewEntries, 1, k)

\* C6 as amended: the logs of the snapshots of a run grow, each extending
\* the one before it; the start entry and the executing entry are each
\* published by their own emission before the next entry is appended; the
\* success and processing entries are appended together and published by
\* the third emission.
C6_OrderedEmissions ==
  node = "tool_node" =>
    /\ Len(RunSnaps) <= 3
    /\ \A k \in 1..Len(RunSnaps) :
         /\ RunSnaps[k].logs = entry.logs \o SubSeq(NewEntries, 1, IF k = 3 THEN 4 ELSE k)
         /\ k > 1 => /\ IsExtension(RunSnaps[k].logs, RunSnaps[k - 1].logs)
                     /\ Len(RunSnaps[k].logs) > Len(RunSnaps[k - 1].logs)
                     /\ IsExtension(Deref(heap, RunSnaps[k].logsRef),
                                    Deref(heap, RunSnaps[k - 1].logsRef))
    /\ Len(NewEntries) = CASE pc \in {"entry", "fallback"} -> 0
                           [] pc = "exec_log" -> 1
                           [] pc \in {"dispatch", "search"} -> 2
                           [] OTHER -> 4
    /\ Len(RunSnaps) = CASE pc \in {"entry", "fallback"} -> 0
                         [] pc = "exec_log" -> 1
                         [] pc \in {"dispatch", "search"} -> 2
                         [] OTHER -> 3

\* the third snapshot of a run has been emitted
C6_Witness ==
  /\ node = "tool_node" /\ pc = "yield"
  /\ Len(RunSnaps) = 3
  /\ Len(RunSnaps[3].logs) = Len(RunSnaps[2].logs) + 2

\* the tool-result messages of the Conversation State that answer call id
AnswersTo(id) ==
  { i \in 1..Len(state.messages) :
      state.messages[i].type = "tool" /\ state.messages[i].tool_call_id = id }

\* C7: on the search path the steps run one after the other: start entry,
\* first emission, executing entry, second emission, dispatch of the
\* search, and only after its return the success and processing entries,
\* the final emission and the tool-result message.  The search is not
\* dispatched before the second emission and no success entry exists while
\* it is in flight.
C7_StepOrder ==
  (node = "tool_node" /\ tool_call.name = "people_search" /\ runs[Len(runs)].calls # << >>) =>
    /\ pc \in {"exec_log", "dispatch", "search", "yield"}
    /\ pc = "exec_log" =>
         /\ Len(RunSnaps) = 1 /\ Len(NewEntries) = 1 /\ invoked = 0
         /\ RunSnaps[1].current_status = "Searching for people..."
    /\ pc = "dispatch" =>
         /\ Len(RunSnaps) = 2 /\ Len(NewEntries) = 2 /\ invoked = 0
         /\ RunSnaps[2].current_status = "Executing search..."
    /\ pc = "search" =>
         /\ Len(RunSnaps) = 2 /\ Len(NewEntries) = 2 /\ invoked = 1
         /\ \A k \in 1..Len(NewEntries) : NewEntries[k].type # "success"
    /\ pc = "yield" =>
         /\ Len(RunSnaps) = 3 /\ Len(NewEntries) = 4 /\ invoked = 1
         /\ searches # << >> /\ Last(searches) = result
         /\ NewEntries[3].type = "success"
    /\ AnswersTo(tool_call.id) = {}

\* a search is in flight after the second emission
C7_Witness ==
  /\ node = "tool_node" /\ pc = "search"
  /\ Len(RunSnaps) = 2
  /\ RunSnaps[2].current_status = "Executing search..."

\* the record list of the most recently completed successful search, or
\* the results the turn started with
LatestResults(done) == IF done = << >> THEN turn0.people ELSE Last(done)

C9_Original ==
  SuccessYielded =>
    /\ state.people = result
    /\ \E i \in 1..Len(state.messages) :
         /\ state.messages[i].type = "ai"
         /\ Contains(state.messages[i].content,
                     "Found " \o ToString(Len(result)) \o " people")

\* C9 as amended: after a successful search-path run with N records the
\* Conversation State holds the N records and its last message is the
\* tool-result message "Found N people." for the executed tool call; the
\* assistant message "Found N people." is carried by the final snapshot
\* only and is in no message of the Conversation State.
C9_FoundToolMessage ==
  SuccessYielded =>
    /\ state.people = result
    /\ Last(searches) = result
    /\ Last(state.messages).type = "tool"
    /\ Last(state.messages).tool_call_id = tool_call.id
    /\ Last(state.messages).content = "Found " \o ToString(Len(result)) \o " people."
    /\ \A i \in 1..Len(state.messages) :
         state.messages[i].type = "ai" => ~ Contains(state.messages[i].content, "Found ")
    /\ Last(Last(emitted).messages).type = "ai"
    /\ Contains(Last(Last(emitted).messages).content,
                "Found " \o ToString(Len(result)) \o " people")

\* a run that found two records has yielded
C9_Witness ==
  /\ SuccessYielded
  /\ Len(result) = 2
  /\ Len(state.people) = 2

\* C10 as stated: the last snapshot of a successful run carries the same
\* status text, results and log as the Conversation State the run yields.
C10_Original ==
  SuccessYielded =>
    /\ Last(emitted).current_status = state.current_status
    /\ Last(emitted).people = state.people
    /\ Last(emitted).logs = StateLogs

\* C10 as amended: the last snapshot of a successful run carries the same
\* results and log as the Conversation State the run yields, with the
\* status "Search completed - N people found"; the status
\* "Ready - N people loaded" is set only by the update the run yields
\* after that emission.
C10_FinalSnapshot ==
  SuccessYielded =>
    /\ Last(emitted).people = state.people
    /\ Last(emitted).logs = StateLogs
    /\ Last(emitted).current_status =
         "Search completed - " \o ToString(Len(result)) \o " people found"
    /\ state.current_status = "Ready - " \o ToString(Len(result)) \o " people loaded"
    /\ \A k \in 1..Len(emitted) :
         emitted[k].current_status # state.current_status

\* a run that found one record has yielded after its final snapshot
C10_Witness ==
  /\ SuccessYielded
  /\ Len(result) = 1
  /\ Last(emitted).node = "tool_node"
  /\ Last(emitted).run = Len(runs) - 1
  /\ Len(SnapsOfRun(Len(runs) - 1)) = 3

\* the requests of kind `to` sent by node run r
RequestsOf(to, r) ==
  { i \in 1..Len(requests) : requests[i].to = to /\ requests[i].run = r }

\* the Search Capability failed and its error left tool_node
SearchFailed == error.source = "people_search"

\* C11 as stated: when the Search Capability fails the error leaves the
\* node and the turn fails; results is what it was before the turn, the run
\* appended no success entry, and messages got neither a "Found N people"
\* message nor a tool-result message.
C11_Original ==
  SearchFailed =>
    /\ node = "FAILED"
    /\ state.people = turn0.people
    /\ \A k \in 1..Len(NewEntries) : NewEntries[k].type # "success"
    /\ state.messages = entry.messages
    /\ AnswersTo(tool_call.id) = {}

\* C11 as amended: when the Search Capability fails the error leaves the
\* node and the turn fails; results is what it was before the failing run
\* (and before the turn when no search of the turn succeeded), the run
\* appended no success entry, and messages got neither a "Found N people"
\* message nor a tool-result message.
C11_FailureLeavesResults ==
  SearchFailed =>
    /\ node = "FAILED"
    /\ error.name = "ApolloError" /\ error.status >= 400
    /\ state.people = entry.people
    /\ state.people = LatestResults(searches)
    /\ \A k \in 1..Len(NewEntries) : NewEntries[k].type # "success"
    /\ state.messages = entry.messages
    /\ \A i \in 1..Len(state.messages) :
         state.messages[i].type = "ai" => ~ Contains(state.messages[i].content, "Found ")
    /\ AnswersTo(tool_call.id) = {}

\* a search failed with 401 in a run that started with non-empty results
C11_Witness ==
  /\ SearchFailed
  /\ error.status = 401
  /\ Len(entry.people) > 0
  /\ Len(NewEntries) = 2

\* C12: a failure of the capability aborts the loop: the failed run is the
\* last node run of the turn, the capability was requested once in it, and
\* nothing is sent or answered after the failure.
C12_FailureAborts ==
  SearchFailed =>
    /\ node = "FAILED"
    /\ Last(runs).node = "tool_node"
    /\ invoked = 1
    /\ Cardinality(RequestsOf("apollo", Len(runs))) = 1
    /\ Last(requests).to = "apollo"
    /\ AnswersTo(tool_call.id) = {}

\* the second search of a turn failed with an api key configured
C12_Witness ==
  /\ SearchFailed
  /\ Len(runs) = 4
  /\ Len(searches) = 1
  /\ env.APOLLO_API_KEY # None

\* C13: a chat_node run that finds the log empty or absent emits exactly
\* one baseline snapshot (empty log, status "Ready to help you find
\* prospects") and queries the model only after that emission; a run that
\* finds a non-empty log emits nothing.
C13_BaselineSnapshot ==
  /\ \A r \in 1..Len(runs) : runs[r].node = "chat_node" => Len(SnapsOfRun(r)) <= 1
  /\ node = "chat_node" =>
       /\ pc = "entry" => RunSnaps = << >>
       /\ pc \in {"entry", "query"} => RequestsOf("model", Len(runs)) = {}
       /\ pc = "model" => Cardinality(RequestsOf("model", Len(runs))) = 1
       /\ pc \in {"query", "model"} =>
            IF entry.logs = << >>
            THEN /\ Len(RunSnaps) = 1
                 /\ RunSnaps[1].logs = << >>
                 /\ RunSnaps[1].current_status = "Ready to help you find prospects"
                 /\ RunSnaps[1].messages = entry.messages
                 /\ RunSnaps[1].people = entry.people
            ELSE RunSnaps = << >>

\* the baseline snapshot of a turn that started with an empty logs list is
\* out and the model has not been queried yet
C13_Witness ==
  /\ node = "chat_node" /\ pc = "query"
  /\ turn0.hasLogs /\ turn0.logs = << >>
  /\ Len(emitted) = 1
  /\ requests = << >>

\* C14 as stated: in every turn the subscriber observes at least one
\* snapshot, also when chat_node ends the turn at once.
C14_Original == node = "END" => Len(emitted) >= 1

\* C14 as amended: in every turn that starts with an empty or absent log
\* the subscriber observes at least one snapshot, the baseline one, also
\* when chat_node ends the turn at once; a turn that starts with a
\* non-empty log and ends at once emits no snapshot.
C14_SnapshotWhenNoLog ==
  (Len(runs) > 1 \/ pc # "entry") =>
    /\ turn0.logs = << >> =>
         /\ Len(emitted) >= 1
         /\ emitted[1].run = 1
         /\ emitted[1].current_status = "Ready to help you find prospects"
    /\ (turn0.logs # << >> /\ Len(runs) = 1) => emitted = << >>

\* a turn without a logs key ended at once on a plain response, with the
\* baseline snapshot as its only emission
C14_Witness ==
  /\ node = "END"
  /\ Len(runs) = 1
  /\ ~ turn0.hasLogs
  /\ Last(state.messages).tool_calls = << >>
  /\ Len(emitted) = 1

\* C15: when the model call fails the error is surfaced: the model was
\* queried once in that run, no message was appended, and the loop is
\* neither in tool_node nor at END.
C15_ModelFailure ==
  error.source = "model" =>
    /\ node = "FAILED"
    /\ Last(runs).node = "chat_node"
    /\ Cardinality(RequestsOf("model", Len(runs))) = 1
    /\ Last(requests).to = "model"
    /\ state.messages = entry.messages

\* the model call of the chat_node run after a successful search failed
C15_Witness ==
  /\ error.source = "model"
  /\ Len(runs) = 3
  /\ Len(searches) = 1
  /\ Last(state.messages).type = "tool"

\* C16: when the pending tool call names anything but people_search,
\* tool_node appends no log entry, emits no snapshot, sends no request of
\* its own and leaves results, log and status of the state as they are.
C16_FallbackFrame ==
  [][ ( /\ node = "tool_node"
        /\ Len(Last(state.messages).tool_calls) > 0
        /\ Last(state.messages).tool_calls[1].name # "people_search" ) =>
        /\ emitted' = emitted
        /\ heap' = heap
        /\ requests' = requests
        /\ state'.logs = state.logs
        /\ state'.people = state.people
        /\ state'.current_status = state.current_status
        /\ IsExtension(state'.messages, state.messages) ]_vars

\* a fallback run has answered a call of People_Search and handed over to
\* chat_node
C16_Witness ==
  /\ node = "chat_node" /\ pc = "entry"
  /\ Len(runs) = 3
  /\ tool_call.name = "People_Search"
  /\ Last(state.messages).type = "tool"
  /\ Last(state.messages).tool_call_id = tool_call.id
  /\ SnapsOfRun(2) = << >>

(************ extract_people_search_data called on its own ***************)
\* employment-history entries of a raw person
EntryCTO == [title |-> "CTO", organization_name |-> "Acme"]
EntryEngineer == [title |-> "Engineer", organization_name |-> "Initech"]
EntryNoTitle == [title |-> Missing, organization_name |-> "Globex"]

\* raw values of the fields the translation looks at
RawEmails == {"email_not_unlocked@domain.com", "bob@corp.io", "Unlock", None, Missing}
RawCities == {"Austin", "", None, Missing}
RawStates == {"TX", "", None, Missing}
RawHistories ==
  { << >>, << EntryCTO >>, << EntryCTO, EntryEngineer >>, << EntryEngineer, EntryCTO >>,
    << EntryNoTitle, EntryCTO >> }

\* the raw person records the translation is applied to: RawAda, and RawBob
\* with each of the fields varied
XPersons ==
  {RawAda}
  \cup { [RawBob EXCEPT !.email = e] : e \in RawEmails }
  \cup { [RawBob EXCEPT !.city = c, !.state = st] : c \in RawCities, st \in RawStates }
  \cup { [RawBob EXCEPT !.employment_history = h] : h \in RawHistories }

\* the response bodies: without a "people" key, or with a list of persons
RawBodies ==
  {NoData} \cup
  { [hasPeople |-> TRUE, people |-> l] :
      l \in UNION { [1..k -> XPersons] : k \in 0..MaxPeople } }

\* translation/search.py line 35: data.get("people", [])
People(d) == IF d.hasPeople THEN d.people ELSE << >>

\* the control loop does not run
LoopOff ==
  /\ state = [messages |-> << >>, logs |-> NoLogs, current_status |-> NoStatus,
              people |-> << >>, copilotkit |-> [actions |-> {}]]
  /\ heap = << >>
  /\ node = "END"
  /\ pc = "off"
  /\ tool_call = NoToolCall
  /\ current_logs = NoLogs
  /\ result = << >>
  /\ emitted = << >>
  /\ uuid = 1
  /\ clock = 1
  /\ callSeq = 0
  /\ runs = << >>
  /\ invoked = 0
  /\ entry = Value(state, heap)
  /\ turn0 = Value(state, heap)
  /\ searches = << >>
  /\ env = [APOLLO_API_KEY |-> None]
  /\ requests = << >>
  /\ error = NoError
  /\ responses = << >>

\* translation/search.py line 33: result = []
ExtractInit ==
  /\ LoopOff
  /\ UnipileOff
  /\ data \in RawBodies
  /\ extracted = << >>
  /\ xpc = "loop"

\* the record of a person is put in front of the list
ExtractStep_Prepend ==
  /\ xpc = "loop"
  /\ Len(extracted) < Len(People(data))
  /\ extracted' = << ExtractPerson(People(data)[Len(extracted) + 1]) >> \o extracted
  /\ UNCHANGED << data, xpc >>
  /\ UNCHANGED loopVars
  /\ UNCHANGED uVars

\* translation/search.py line 35-71: one round of the loop over the persons
ExtractStep ==
  /\ xpc = "loop"
  /\ Len(extracted) < Len(People(data))
  /\ extracted' = Append(extracted, ExtractPerson(People(data)[Len(extracted) + 1]))
  /\ UNCHANGED << data, xpc >>
  /\ UNCHANGED loopVars
  /\ UNCHANGED uVars

\* translation/search.py line 73: return result
ExtractReturn ==
  /\ xpc = "loop"
  /\ Len(extracted) = Len(People(data))
  /\ xpc' = "returned"
  /\ UNCHANGED << data, extracted >>
  /\ UNCHANGED loopVars
  /\ UNCHANGED uVars

ExtractNext ==
  \/ ExtractStep
  \/ ExtractReturn

SpecExtract == ExtractInit /\ [][ExtractNext]_vars

\* C17: the normalized email is "Unlock" when the raw email is the locked
\* sentinel and is the raw email for every other value (the empty string
\* when the record has no email key).
C17_EmailSentinel ==
  \A i \in 1..Len(extracted) :
    LET raw == People(data)[i].email
    IN /\ raw = "email_not_unlocked@domain.com" => extracted[i].email = "Unlock"
       /\ raw \notin {"email_not_unlocked@domain.com", Missing} => extracted[i].email = raw
       /\ raw = Missing => extracted[i].email = ""

\* a locked and an unlocked email have been translated
C17_Witness ==
  /\ xpc = "returned"
  /\ Len(extracted) = 2
  /\ data.people[1].email = "email_not_unlocked@domain.com"
  /\ extracted[1].email = "Unlock"
  /\ extracted[2].email = "bob@corp.io"

\* C18: the normalized location is "<city>, <state>" when city and state
\* are both non-empty, the city when only the city is non-empty, and ""
\* when neither is present (missing, empty and null count as not present).
C18_Location ==
  \A i \in 1..Len(extracted) :
    LET city == People(data)[i].city
        st == People(data)[i].state
        absent == {Missing, "", None}
    IN /\ (city \notin absent /\ st \notin absent) =>
            extracted[i].location = city \o ", " \o st
       /\ (city \notin absent /\ st \in absent) => extracted[i].location = city
       /\ (city \in absent /\ st \in absent) => extracted[i].location = ""

\* a record with city and state and a record with only a city have been
\* translated
C18_Witness ==
  /\ xpc = "returned"
  /\ Len(extracted) = 2
  /\ data.people[1].state = "TX"
  /\ extracted[1].location = "Austin, TX"
  /\ data.people[2].state = None
  /\ extracted[2].location = "Austin"

\* C19: title and organization are those of the first employment-history
\* entry, or both "" when there is no history; later entries do not count;
\* the output holds one record per raw person, in input order.
C19_FirstEmployment ==
  /\ Len(extracted) <= Len(People(data))
  /\ xpc = "returned" => Len(extracted) = Len(People(data))
  /\ \A i \in 1..Len(extracted) :
       LET person == People(data)[i]
           history == person.employment_history
       IN /\ extracted[i].first_name = person.first_name
          /\ extracted[i].linkedin_url = person.linkedin_url
          /\ Len(history) = 0 =>
               extracted[i].title = "" /\ extracted[i].organization = ""
          /\ Len(history) > 0 =>
               /\ extracted[i].title =
                    (IF history[1].title = Missing THEN "" ELSE history[1].title)
               /\ extracted[i].organization = history[1].organization_name

\* a person with two history entries and a person without history have
\* been translated, in that order
C19_Witness ==
  /\ xpc = "returned"
  /\ Len(extracted) = 2
  /\ data.people[1].employment_history = << EntryEngineer, EntryCTO >>
  /\ extracted[1].title = "Engineer"
  /\ extracted[1].first_name = "Bob"
  /\ extracted[2].first_name = "Ada"
  /\ extracted[2].title = "CTO"

\* C20 as stated: when a required credential is absent from the
\* environment no request is sent to the provider: the capability raises
\* a configuration error at its first use.
C20_Original ==
  \A i \in 1..Len(requests) :
    requests[i].to = "apollo" =>
      /\ env.APOLLO_API_KEY # None
      /\ requests[i].api_key # None

\* C21 as stated: for every provider response whose status is not 2xx
\* (3xx included) people_search fails with an error that carries the
\* status, the body and a message, and returns no record list for it.
C21_Original ==
  \A i \in 1..Len(responses) :
    responses[i].status \notin 200..299 =>
      /\ ~ responses[i].returned
      /\ error.name = "ApolloError"
      /\ error.status = responses[i].status
      /\ error.message # ""

(**************** unipile: an operation called on its own *****************)
\* the operations of unipile/messages.py, posts.py, companies.py and
\* users.py: the messages of the checks of their required parameters in
\* the order of the checks, whether make_request is awaited, whether the
\* request has a json.dumps body, whether the module imports json, and the
\* cleaner the response is handed to unless raw is set
Operation(name, module, required, awaited, body, json, cleaner) ==
  [name |-> name, module |-> module, required |-> required, awaited |-> awaited,
   body |-> body, json |-> json, cleaner |-> cleaner]

MessageOperations ==
  { Operation("get_chats", "messages", << >>, TRUE, FALSE, TRUE, ""),
    Operation("get_chat_messages", "messages", << "Chat ID is required" >>, TRUE, FALSE, TRUE, ""),
    Operation("send_message", "messages",
              << "Chat ID is required", "Message content is required" >>, TRUE, TRUE, TRUE, ""),
    Operation("create_chat", "messages",
              << "Recipient ID is required", "Message text is required" >>, TRUE, TRUE, TRUE, "") }

PostOperations ==
  { Operation("get_user_posts", "posts", << "User ID is required" >>, TRUE, FALSE, TRUE, ""),
    Operation("get_user_comments", "posts", << "User ID is required" >>, TRUE, FALSE, TRUE, ""),
    Operation("create_post", "posts", << "Post text is required" >>, TRUE, TRUE, TRUE, ""),
    Operation("get_post", "posts", << "Post ID is required" >>, TRUE, FALSE, TRUE, ""),
    Operation("get_post_comments", "posts", << "Post ID is required" >>, TRUE, FALSE, TRUE, ""),
    Operation("comment_on_post", "posts",
              << "Post ID is required", "Comment text is required" >>, TRUE, TRUE, TRUE, "") }

CompanyOperations ==
  { Operation("get_company_profile", "companies",
              << "Company identifier is required" >>, TRUE, FALSE, TRUE, ""),
    Operation("search_companies", "companies",
              << "Search keywords are required" >>, TRUE, TRUE, TRUE, "") }

UserOperations ==
  { Operation("get_account_owner_profile", "users", << >>, FALSE, FALSE, FALSE, ""),
    Operation("get_user_profile_by_identifier", "users",
              << "User identifier is required" >>, FALSE, FALSE, FALSE, ""),
    Operation("search_linkedin", "users",
              << "Search keywords are required" >>, FALSE, TRUE, FALSE, ""),
    Operation("get_relations", "users", << >>, FALSE, FALSE, FALSE, "clean_user_relations"),
    Operation("get_invitations_sent", "users", << >>, FALSE, FALSE, FALSE, "clean_invitations_sent"),
    Operation("get_invitations_received", "users", << >>, FALSE, FALSE, FALSE,
              "clean_invitations_received"),
    Operation("send_invitation", "users",
              << "Recipient Provider ID is required" >>, FALSE, TRUE, FALSE,
              "clean_send_invitation_response") }

UnipileOperations ==
  MessageOperations \cup PostOperations \cup CompanyOperations \cup UserOperations

\* the operation a call names
Called == CHOOSE o \in UnipileOperations : o.name = ucall.op

\* the environments unipile/config.py may be imported in
UnipileEnvironments ==
  [UNIPILE_DNS : {"", "api1.unipile.com:13111"},
   UNIPILE_API_KEY : {"", "unipile-key"},
   UNIPILE_ACCOUNT_ID : {"", "acc-env"}]

\* the calls: every required parameter empty or given, account_id left out
\* or given, raw set only where the operation has the parameter
UnipileCalls ==
  { [op |-> o.name, args |-> a, account_id |-> acc, raw |-> r] :
      o \in UnipileOperations, a \in UNION { [1..k -> {"", "x"}] : k \in 0..2 },
      acc \in {None, "acc-arg"}, r \in BOOLEAN }

Raised(name, message) ==
  [kind |-> "raised", value |-> "", name |-> name, status |-> 0, body |-> "",
   message |-> message]
Returned(value) ==
  [kind |-> "returned", value |-> value, name |-> "", status |-> 0, body |-> "",
   message |-> ""]

\* unipile/config.py line 62-67
UnipileError(status, body) ==
  [kind |-> "raised", value |-> "", name |-> "UnipileError", status |-> status,
   body |-> body, message |-> "Unipile API error: " \o ToString(status)]

\* the coroutine object a call of make_request gives before it is awaited
Coroutine == "<coroutine object make_request>"
ParsedBody == "<parsed body>"
Cleaned(response) == "<cleaned " \o response \o ">"

\* the account id is not checked
ensure_account_id_unchecked(account_id, e) ==
  [raised |-> FALSE,
   value |-> IF Truthy(account_id) THEN account_id ELSE e.UNIPILE_ACCOUNT_ID]

\* unipile/config.py line 168-171
ensure_account_id(account_id, e) ==
  LET id_to_use == IF Truthy(account_id) THEN account_id ELSE e.UNIPILE_ACCOUNT_ID
  IN [raised |-> ~ Truthy(id_to_use), value |-> id_to_use]

\* unipile/config.py line 30-32
get_base_url(e) ==
  [raised |-> ~ Truthy(e.UNIPILE_DNS), value |-> "https://" \o e.UNIPILE_DNS]

\* the API key is put into the headers without a check
get_headers_unchecked(e) ==
  [raised |-> FALSE, value |-> e.UNIPILE_API_KEY]

\* unipile/config.py line 52-59
get_headers(e) ==
  [raised |-> ~ Truthy(e.UNIPILE_API_KEY), value |-> e.UNIPILE_API_KEY]

\* unipile/config.py line 113: response.ok of the HTTP client is status < 400
ok(status) == status < 400

UnipileInit ==
  /\ LoopOff
  /\ ExtractOff
  /\ uenv \in UnipileEnvironments
  /\ ucall \in UnipileCalls
  /\ Len(ucall.args) = Len(Called.required)
  /\ ucall.raw => Called.cleaner # ""
  /\ upc = "validate"
  /\ ulocals = NoLocals
  /\ urequests = << >>
  /\ uoutcome = NoOutcome

\* the checks `if not <parameter>: raise Exception(...)` at the head of an
\* operation, in their order
UnipileValidate ==
  /\ upc = "validate"
  /\ LET empty == { i \in 1..Len(ucall.args) : ~ Truthy(ucall.args[i]) }
     IN IF empty # {}
        THEN LET first == CHOOSE i \in empty : \A j \in empty : i <= j
             IN /\ uoutcome' = Raised("Exception", Called.required[first])
                /\ upc' = "raised"
        ELSE /\ upc' = "account"
             /\ UNCHANGED uoutcome
  /\ UNCHANGED << uenv, ucall, ulocals, urequests >>
  /\ UNCHANGED loopVars
  /\ UNCHANGED xVars

\* id = ensure_account_id(account_id)
UnipileAccount ==
  /\ upc = "account"
  /\ LET id == ensure_account_id(ucall.account_id, uenv)
     IN IF id.raised
        THEN /\ uoutcome' = Raised("Exception", "Account ID is required but not provided")
             /\ upc' = "raised"
             /\ UNCHANGED ulocals
        ELSE /\ ulocals' = [ulocals EXCEPT !.id = id.value]
             /\ upc' = "base_url"
             /\ UNCHANGED uoutcome
  /\ UNCHANGED << uenv, ucall, urequests >>
  /\ UNCHANGED loopVars
  /\ UNCHANGED xVars

\* base_url = get_base_url()
UnipileBaseUrl ==
  /\ upc = "base_url"
  /\ LET base_url == get_base_url(uenv)
     IN IF base_url.raised
        THEN /\ uoutcome' = Raised("Exception", "UNIPILE_DNS environment variable is not set")
             /\ upc' = "raised"
             /\ UNCHANGED ulocals
        ELSE /\ ulocals' = [ulocals EXCEPT !.base_url = base_url.value]
             /\ upc' = "headers"
             /\ UNCHANGED uoutcome
  /\ UNCHANGED << uenv, ucall, urequests >>
  /\ UNCHANGED loopVars
  /\ UNCHANGED xVars

\* the options of the request are built before make_request is called:
\* 'headers': get_headers(), then 'body': json.dumps(...), which raises
\* NameError in a module that does not import json
UnipileOptions ==
  /\ upc = "headers"
  /\ LET headers == get_headers(uenv)
     IN IF headers.raised
        THEN /\ uoutcome' = Raised("Exception", "UNIPILE_API_KEY environment variable is not set")
             /\ upc' = "raised"
             /\ UNCHANGED ulocals
        ELSE IF Called.body /\ ~ Called.json
        THEN /\ uoutcome' = Raised("NameError", "name 'json' is not defined")
             /\ upc' = "raised"
             /\ UNCHANGED ulocals
        ELSE /\ ulocals' = [ulocals EXCEPT !.headers = headers.value]
             /\ upc' = "request"
             /\ UNCHANGED uoutcome
  /\ UNCHANGED << uenv, ucall, urequests >>
  /\ UNCHANGED loopVars
  /\ UNCHANGED xVars

\* make_request(url, options): the call gives a coroutine object; where the
\* operation awaits it the request is issued, and where it does not
\* (users.py) the coroutine is never started and is bound to `response`
UnipileRequest ==
  /\ upc = "request"
  /\ IF Called.awaited
     THEN /\ urequests' = Append(urequests, [url |-> ulocals.base_url, key |-> ulocals.headers,
                                             account_id |-> ulocals.id, completed |-> FALSE])
          /\ upc' = "await"
          /\ UNCHANGED ulocals
     ELSE /\ ulocals' = [ulocals EXCEPT !.response = Coroutine]
          /\ upc' = "return"
          /\ UNCHANGED urequests
  /\ UNCHANGED << uenv, ucall, uoutcome >>
  /\ UNCHANGED loopVars
  /\ UNCHANGED xVars

\* unipile/config.py line 107-121: the provider answers; a response that
\* is not ok raises UnipileError, any other is parsed and returned
UnipileResponse ==
  /\ upc = "await"
  /\ \E status \in Statuses :
       /\ urequests' = [urequests EXCEPT ![Len(urequests)].completed = TRUE]
       /\ IF ~ ok(status)
          THEN /\ uoutcome' = UnipileError(status, "<body of " \o ToString(status) \o ">")
               /\ upc' = "raised"
               /\ UNCHANGED ulocals
          ELSE /\ ulocals' = [ulocals EXCEPT !.response = ParsedBody]
               /\ upc' = "return"
               /\ UNCHANGED uoutcome
  /\ UNCHANGED << uenv, ucall >>
  /\ UNCHANGED loopVars
  /\ UNCHANGED xVars

\* `return response`, or `return response if raw else <cleaner>(response)`:
\* a cleaner calls response.get, which a coroutine object does not have
UnipileReturn ==
  /\ upc = "return"
  /\ IF Called.cleaner = "" \/ ucall.raw
     THEN /\ uoutcome' = Returned(ulocals.response)
          /\ upc' = "returned"
     ELSE IF ulocals.response = Coroutine
     THEN /\ uoutcome' = Raised("AttributeError", "'coroutine' object has no attribute 'get'")
          /\ upc' = "raised"
     ELSE /\ uoutcome' = Returned(Cleaned(ulocals.response))
          /\ upc' = "returned"
  /\ UNCHANGED << uenv, ucall, ulocals, urequests >>
  /\ UNCHANGED loopVars
  /\ UNCHANGED xVars

UnipileNext ==
  \/ UnipileValidate
  \/ UnipileAccount
  \/ UnipileBaseUrl
  \/ UnipileOptions
  \/ UnipileRequest
  \/ UnipileResponse
  \/ UnipileReturn

SpecUnipile == UnipileInit /\ [][UnipileNext]_vars

\* the parameters and credentials a call lacks
EmptyParameter == \E i \in 1..Len(ucall.args) : ~ Truthy(ucall.args[i])
NoAccountId == ~ Truthy(ucall.account_id) /\ ~ Truthy(uenv.UNIPILE_ACCOUNT_ID)
NoBaseUrl == ~ Truthy(uenv.UNIPILE_DNS)
NoApiKey == ~ Truthy(uenv.UNIPILE_API_KEY)

\* C22: a call of a Unipile operation with an empty required parameter,
\* or without an account id, base URL or API key, issues no request and
\* ends in an Exception that names what is missing; an empty parameter is
\* reported before a missing credential.
C22_ValidationFirst ==
  (EmptyParameter \/ NoAccountId \/ NoBaseUrl \/ NoApiKey) =>
    /\ urequests = << >>
    /\ upc \in {"validate", "account", "base_url", "headers", "raised"}
    /\ upc = "raised" =>
         /\ uoutcome.kind = "raised"
         /\ uoutcome.name = "Exception"
         /\ IF EmptyParameter
            THEN \E i \in 1..Len(ucall.args) :
                   ~ Truthy(ucall.args[i]) /\ uoutcome.message = Called.required[i]
            ELSE uoutcome.message \in
                   ( (IF NoAccountId THEN {"Account ID is required but not provided"} ELSE {})
                     \cup (IF NoBaseUrl THEN {"UNIPILE_DNS environment variable is not set"} ELSE {})
                     \cup (IF NoApiKey THEN {"UNIPILE_API_KEY environment variable is not set"} ELSE {}) )

\* send_message was called with a chat id and an empty content and raised,
\* with every credential configured
C22_Witness ==
  /\ upc = "raised"
  /\ ucall.op = "send_message"
  /\ ucall.args = << "x", "" >>
  /\ uoutcome.message = "Message content is required"
  /\ ~ NoAccountId /\ ~ NoBaseUrl /\ ~ NoApiKey
  /\ urequests = << >>

\* C30 as stated: a Unipile user operation returns, or hands to its
\* cleaner, the parsed response only after the request it issued through
\* make_request has completed; it never returns or cleans a pending request.
C30_Original ==
  (ucall.op # "" /\ Called.module = "users") =>
    /\ upc = "return" =>
         /\ ulocals.response = ParsedBody
         /\ \E i \in 1..Len(urequests) : urequests[i].completed
    /\ upc = "returned" =>
         /\ uoutcome.value \in {ParsedBody, Cleaned(ParsedBody)}
         /\ \E i \in 1..Len(urequests) : urequests[i].completed
    /\ upc = "raised" => uoutcome.name # "AttributeError"

\* the messages of the Conversation State that request a search: an
\* assistant message whose first tool call is people_search and was routed
\* to tool_node
SearchRequests ==
  { i \in 1..Len(state.messages) :
      /\ state.messages[i].type = "ai"
      /\ Len(state.messages[i].tool_calls) > 0
      /\ IsSearchCall(state.messages[i].tool_calls[1])
      /\ Route(state.messages[i], state.copilotkit.actions) = "tool_node" }

C24_FailureProgress ==
  /\ [](SearchFailed =>
         /\ Deref(heap, current_logs) = entry.logs \o NewEntries
         /\ Len(NewEntries) = 2
         /\ NewEntries[1].message = ":mag: Starting people search..."
         /\ NewEntries[2].message = ":zap: Executing Apollo people search API..."
         /\ \A k \in 1..Len(NewEntries) : NewEntries[k].type = "progress"
         /\ Len(SnapsOfRun(Len(runs))) = 2
         /\ SnapsOfRun(Len(runs))[1].current_status = "Searching for people..."
         /\ SnapsOfRun(Len(runs))[2].current_status = "Executing search..."
         /\ Last(emitted) = SnapsOfRun(Len(runs))[2]
         /\ Last(emitted).logs = entry.logs \o NewEntries)
  /\ [][SearchFailed => (emitted' = emitted /\ heap' = heap)]_vars

\* the second search of a turn failed: its two entries follow the four of
\* the first search
C24_Witness ==
  /\ SearchFailed
  /\ Len(runs) = 4
  /\ Len(entry.logs) >= 4
  /\ Len(Deref(heap, current_logs)) = Len(entry.logs) + 2
  /\ Len(SnapsOfRun(4)) = 2

\* C25 as stated: a snapshot is a full copy of the Conversation State at
\* its emission: the log a snapshot holds is not changed by the steps that
\* follow its emission, and the log of the Conversation State a node was
\* given is changed only by the update the node yields.
C25_Original ==
  /\ \A k \in 1..Len(emitted) : Deref(heap, emitted[k].logsRef) = emitted[k].logs
  /\ node = "tool_node" => StateLogs = entry.logs

(******************* the control loop under fairness *********************)
\* every await of the loop completes: the emissions, the model call and the
\* search call return or raise, so a node that can take its next step
\* takes it.  The bound MaxRuns in ChatRespond makes the model return a
\* response that ends the turn after finitely many cycles.
SpecFair == Init /\ [][Next]_vars /\ WF_vars(Next)

\* C26: the loop reaches END only by a chat_node run whose response has no
\* tool call or whose first tool call names a host action; every turn in
\* which the calls complete ends: it reaches END, or FAILED by a call that
\* raised; between two runs of tool_node there is a run of chat_node, and
\* the loop itself never stops a turn after a tool_node run.
C26_Termination ==
  /\ [][ (node # "END" /\ node' = "END") =>
           /\ node = "chat_node" /\ pc = "model"
           /\ state'.messages = Append(state.messages, Last(state'.messages))
           /\ Last(state'.messages).type = "ai"
           /\ \/ Last(state'.messages).tool_calls = << >>
              \/ Last(state'.messages).tool_calls[1].name \in state.copilotkit.actions ]_vars
  /\ [][ (node = "tool_node" /\ node' # "tool_node") => node' \in {"chat_node", "FAILED"} ]_vars
  /\ [](node = "END" => Last(runs).node = "chat_node")
  /\ <>(node \in {"END", "FAILED"})

\* a turn ended after two cycles of chat_node and tool_node
C26_Witness ==
  /\ node = "END"
  /\ Len(runs) = 5
  /\ runs[2].node = "tool_node"
  /\ runs[4].node = "tool_node"
  /\ Len(searches) = 2

\* C27: whenever tool_node runs, the last message of the Conversation
\* State is an assistant message with at least one tool call whose first
\* call names no host action; the read of tool_calls[0] never raises.
C27_PendingCall ==
  /\ node = "tool_node" =>
       /\ Last(state.messages).type = "ai"
       /\ Len(Last(state.messages).tool_calls) >= 1
       /\ \A action \in state.copilotkit.actions :
            action # Last(state.messages).tool_calls[1].name
       /\ pc # "entry" => tool_call = Last(state.messages).tool_calls[1]
  /\ error.name # "IndexError"
  /\ error.source # "tool_node"

\* the second tool_node run of a turn with host actions is about to read
\* its tool call
C27_Witness ==
  /\ node = "tool_node" /\ pc = "entry"
  /\ Len(runs) = 4
  /\ state.copilotkit.actions # {}
  /\ Last(state.messages).tool_calls[1].id = 2

\* the transient assistant messages of the search path
SearchingMessage == AIMessage("*Searching for people...* :detective:", << >>)
FoundMessage(n) == AIMessage(FoundAI(n), << >>)

\* C28: the 'searching' and the 'found' assistant message are in no
\* message of the Conversation State; the first snapshot of a search-path
\* run carries the messages of the state followed by the 'searching'
\* message, the second the messages of the state alone, the third the
\* messages of the state followed by the 'found' message: the messages of
\* the second snapshot do not extend those of the first.
C28_TransientMessages ==
  /\ \A i \in 1..Len(state.messages) :
       /\ state.messages[i] # SearchingMessage
       /\ ~ Contains(state.messages[i].content, "Searching for people")
       /\ ~ Contains(state.messages[i].content, ":white_check_mark:")
  /\ node = "tool_node" =>
       /\ state.messages = entry.messages
       /\ Len(RunSnaps) >= 1 => RunSnaps[1].messages = Append(entry.messages, SearchingMessage)
       /\ Len(RunSnaps) >= 2 =>
            /\ RunSnaps[2].messages = entry.messages
            /\ ~ IsExtension(RunSnaps[2].messages, RunSnaps[1].messages)
       /\ Len(RunSnaps) >= 3 =>
            /\ RunSnaps[3].messages = Append(entry.messages, FoundMessage(Len(result)))
            /\ ~ IsExtension(RunSnaps[3].messages, RunSnaps[1].messages)

\* the three snapshots of a run that found two records are out
C28_Witness ==
  /\ node = "tool_node" /\ pc = "yield"
  /\ Len(RunSnaps) = 3
  /\ Len(result) = 2
  /\ Last(RunSnaps[3].messages).content = "Found 2 people. :white_check_mark:"
  /\ Len(RunSnaps[2].messages) = Len(RunSnaps[1].messages) - 1

(******** the control loop with a model that answers several calls ********)
\* parallel_tool_calls=False is a parameter of the request to the model
\* provider; chat_node does not look at the number of tool calls of the
\* response.  The responses of a provider that does not keep to the
\* parameter carry up to MaxParallel tool calls.
AnyResponses ==
  { AIMessage(IF Len(names) = 0 THEN "Here is what I found." ELSE "",
              [i \in 1..Len(names) |->
                 [name |-> names[i], id |-> callSeq + i, args |-> "person_titles"]])
    : names \in UNION { [1..k -> tools \cup {"show_chart"}] : k \in 0..MaxParallel } }

\* line 155-180 with such a response
ChatRespondAny ==
  /\ node = "chat_node" /\ pc = "model"
  /\ \E response \in AnyResponses : ChatCommand(response)
  /\ clock' = clock + 1
  /\ UNCHANGED << heap, tool_call, current_logs, result, emitted, uuid, turn0, searches >>
  /\ UNCHANGED << env, requests, error >>
  /\ UNCHANGED responses
  /\ UNCHANGED xVars
  /\ UNCHANGED uVars

NextParallel ==
  \/ ChatEntry
  \/ ChatQuery
  \/ ChatRespondAny
  \/ ChatModelFails
  \/ ToolStart
  \/ ToolExecLog
  \/ ToolDispatch
  \/ SearchReturns
  \/ SearchFails
  \/ ToolYield
  \/ ToolFallback

\* a turn of a process with an Apollo key that starts without log and
\* without results, with any list of host actions
InitParallel ==
  /\ Init
  /\ env.APOLLO_API_KEY # None
  /\ state.logs = NoLogs
  /\ state.people = << >>

SpecParallel == InitParallel /\ [][NextParallel]_vars

\* the tool calls of the assistant message that the run which has just
\* yielded answered: the message before the tool-result message
RequestedCalls == state.messages[Len(state.messages) - 1].tool_calls

\* C29: chat_node routes by the first tool call of the response alone: it
\* goes to tool_node iff that call names no host action, whatever the
\* further calls name; the search path of tool_node executes the first
\* call only, with one request to the provider, and yields one
\* tool-result message, for the id of the first call; the further calls
\* of the response get no tool-result message.
C29_FirstCallOnly ==
  /\ [][ (node = "chat_node" /\ pc = "model" /\ node' # "FAILED") =>
           LET response == Last(state'.messages)
           IN /\ response \in AnyResponses
              /\ node' = IF /\ Len(response.tool_calls) > 0
                            /\ response.tool_calls[1].name \notin state.copilotkit.actions
                         THEN "tool_node" ELSE "END" ]_vars
  /\ [][ (node = "tool_node" /\ pc = "yield") =>
           /\ tool_call = Last(state.messages).tool_calls[1]
           /\ Cardinality(RequestsOf("apollo", Len(runs))) = 1
           /\ state'.messages = Append(state.messages,
                                       ToolMessage(FoundTool(Len(result)), tool_call.id)) ]_vars
  /\ [](SuccessYielded =>
          /\ entry.messages = state.messages
          /\ AnswersTo(RequestedCalls[1].id) = {Len(state.messages)}
          /\ \A k \in 2..Len(RequestedCalls) : AnswersTo(RequestedCalls[k].id) = {})

\* a response asked for a search and then for a host action and a second
\* search: the run answered the first call only
C29_Witness ==
  /\ SuccessYielded
  /\ Len(RequestedCalls) = 3
  /\ RequestedCalls[2].name \in state.copilotkit.actions
  /\ RequestedCalls[3].name = "people_search"
  /\ Cardinality(RequestsOf("apollo", Len(runs) - 1)) = 1
  /\ Last(state.messages).tool_call_id = RequestedCalls[1].id

=============================================================================
